---- MODULE Spec2Model ----
(***************************************************************************)
(* Conversation state machine of the Sentient chat App component           *)
(* (src/src/App.jsx): React state input / messages / loading / isTyping,   *)
(* the closure of the last committed render that the event handlers read,  *)
(* the outstanding fetch calls of sendMessage and their continuations.     *)
(*                                                                         *)
(* Text is a sequence of characters, so that trim() is a real              *)
(* computation. The fixed strings of the program are one-element sequences *)
(* holding the literal, which keeps them comparable with user text and     *)
(* distinct from anything a user or the service can produce here.          *)
(***************************************************************************)
EXTENDS Naturals, Sequences, FiniteSets

\* ---- bounds of the model ------------------------------------------------
MaxSubmits == 2
MaxTime == 1
MaxEffectRuns == 2

\* ---- text -----------------------------------------------------------------
\* the values the user gives the draft: empty, whitespace only, and text with
\* whitespace on both sides
Texts == {<<>>, <<" ">>, <<" ", "a", " ">>}

IsWhitespace(c) == c = " "

RECURSIVE TrimStart(_)
TrimStart(s) ==
    IF s = <<>> THEN <<>>
    ELSE IF IsWhitespace(Head(s)) THEN TrimStart(Tail(s)) ELSE s

RECURSIVE TrimEnd(_)
TrimEnd(s) ==
    IF s = <<>> THEN <<>>
    ELSE IF IsWhitespace(s[Len(s)]) THEN TrimEnd(SubSeq(s, 1, Len(s) - 1)) ELSE s

\* String.prototype.trim
Trim(s) == TrimEnd(TrimStart(s))

\* ---- literals of the program ---------------------------------------------
GreetingText == <<"Hello! I am your Sentient AI Assistant. How can I help you with DeFi strategies today?">>
SystemPrompt == <<"You are an expert AI DeFi Assistant. ...">>
NoContentText == <<"Sorry, I could not process your request.">>
ErrorText == <<"Sorry, there was an error processing your message. Please try again.">>

\* interface Message
Message(r, c, t) == [role |-> r, content |-> c, timestamp |-> t]

VARIABLES
    input,        \* useState('')            the draft
    messages,     \* useState<Message[]>([]) the transcript
    loading,      \* useState(false)         the pending flag
    isTyping,     \* useState(false)
    view,         \* state captured by the handlers of the last committed render
    inflight,     \* payloads of the fetch calls that have not settled
    apiKey,       \* import.meta.env.VITE_FIREWORKS_API_KEY is set
    now,          \* value of new Date()
    phase,        \* "mounting" until the mount effect has run, then "ready"
    effectRuns,   \* runs of the mount effect
    accepted,     \* submits that passed the guard
    issued,       \* fetch calls made
    completed,    \* sendMessage invocations that reached the end of finally
    uncaught,     \* an exception left sendMessage
    last          \* what the last handler did

vars == <<input, messages, loading, isTyping, view, inflight, apiKey, now,
          phase, effectRuns, accepted, issued, completed, uncaught, last>>

\* the values a render captures
Snapshot(i, m, l, t) == [input |-> i, messages |-> m, loading |-> l, isTyping |-> t]

Init ==
    /\ input = <<>>
    /\ messages = <<>>
    /\ loading = FALSE
    /\ isTyping = FALSE
    /\ view = Snapshot(<<>>, <<>>, FALSE, FALSE)
    /\ inflight = <<>>
    /\ apiKey \in BOOLEAN
    /\ now = 0
    /\ phase = "mounting"
    /\ effectRuns = 0
    /\ accepted = 0
    /\ issued = 0
    /\ completed = 0
    /\ uncaught = FALSE
    /\ last = "init"

\* time passes between handlers
Tick ==
    /\ now < MaxTime
    /\ now' = now + 1
    /\ UNCHANGED <<input, messages, loading, isTyping, view, inflight, apiKey,
                   phase, effectRuns, accepted, issued, completed, uncaught, last>>

\* mutant: the effect appends: setMessages(prev => [...prev, greeting])
MutMountEffectAppends ==
    /\ phase = "mounting"
    /\ effectRuns < MaxEffectRuns
    /\ messages' = Append(messages, Message("assistant", GreetingText, now))
    /\ view' = Snapshot(input, messages', loading, isTyping)
    /\ effectRuns' = effectRuns + 1
    /\ \E again \in BOOLEAN :
          phase' = IF again /\ effectRuns + 1 < MaxEffectRuns THEN "mounting" ELSE "ready"
    /\ last' = "mount"
    /\ UNCHANGED <<input, loading, isTyping, inflight, apiKey, now,
                   accepted, issued, completed, uncaught>>

\* useEffect(() => setMessages([greeting]), []): runs at mount, twice under
\* StrictMode, before any user event is handled; the update is rendered.
MountEffect ==
    /\ phase = "mounting"
    /\ effectRuns < MaxEffectRuns
    /\ messages' = <<Message("assistant", GreetingText, now)>>
    /\ view' = Snapshot(input, messages', loading, isTyping)
    /\ effectRuns' = effectRuns + 1
    /\ \E again \in BOOLEAN :
          phase' = IF again /\ effectRuns + 1 < MaxEffectRuns THEN "mounting" ELSE "ready"
    /\ last' = "mount"
    /\ UNCHANGED <<input, loading, isTyping, inflight, apiKey, now,
                   accepted, issued, completed, uncaught>>

\* ---- sendMessage: try / catch / finally -------------------------------------
\* what the try block ended with: it threw an Error with a message, or it
\* completed with the reply text
Thrown(msg) == [thrown |-> TRUE, value |-> msg]
Completed(v) == [thrown |-> FALSE, value |-> v]

\* messages of the errors the try block can throw
KeyNotFound == <<"API key not found">>
FailedToFetch == <<"TypeError: Failed to fetch">>
NotJson == <<"SyntaxError: Unexpected token">>
NoChoices == <<"TypeError: Cannot read properties of undefined">>
ApiError(st) ==
    CASE st = 404 -> <<"API error: 404">>
      [] st = 500 -> <<"API error: 500">>
      [] OTHER -> <<"API error">>

\* mutant: the try has a finally but no catch
MutNoCatch(r) == FALSE

\* catch (error) has no filter: whatever the try block throws is handled
Caught(r) == r.thrown

\* mutant: the catch block shows error.message
MutContentShowsError(r) == r.value

\* content of the assistant message: the reply, or the catch block's text
AssistantContent(r) == IF r.thrown THEN ErrorText ELSE r.value

\* mutant: setMessages([m])
MutAppendReplaces(prev, m) == <<m>>

\* mutant: setMessages(prev => [m, ...prev])
MutAppendPrepends(prev, m) == <<m>> \o prev

\* setMessages(prev => [...prev, m])
AppendMessage(prev, m) == Append(prev, m)

\* mutant: setLoading(false) at the end of the try block, not in finally
MutLoadingClearedOnSuccess(r) == r.thrown

\* mutant: finally clears loading only; isTyping keeps its value
MutIsTypingNotCleared(r) == isTyping

\* finally { setLoading(false); setIsTyping(false) }
LoadingAfterFinally(r) == FALSE
IsTypingAfterFinally(r) == FALSE

\* ---- sendMessage: the synchronous part ------------------------------------
\* mutant: if (!input || loading) return;
MutGuardNoTrim(c) == c.input = <<>> \/ c.loading

\* if (!input.trim() || loading) return;
GuardRejects(c) == Trim(c.input) = <<>> \/ c.loading

\* ...messages.map(m => ({ role: m.role, content: m.content }))
MapRoleContent(ms) == [k \in 1..Len(ms) |-> [role |-> ms[k].role, content |-> ms[k].content]]

\* mutant: the new user entry is left out of the request
MutRequestWithoutNew(c) ==
    <<[role |-> "system", content |-> SystemPrompt]>> \o MapRoleContent(c.messages)

\* mutant: only the system message and the new text are sent
MutRequestOnlyNew(c) ==
    <<[role |-> "system", content |-> SystemPrompt],
      [role |-> "user", content |-> c.input]>>

\* the messages array of the request body
RequestMessages(c) ==
    <<[role |-> "system", content |-> SystemPrompt]>>
        \o MapRoleContent(c.messages)
        \o <<[role |-> "user", content |-> c.input]>>

\* mutant: content: input.trim()
MutUserMessageTrimmed(c) == Message("user", Trim(c.input), now)

\* const userMessage = { role: 'user', content: input, timestamp: new Date() }
UserMessage(c) == Message("user", c.input, now)

\* the guard returned: nothing is set
SendRejected ==
    /\ GuardRejects(view)
    /\ last' = IF view.loading THEN "reject_loading" ELSE "reject_empty"
    /\ UNCHANGED <<input, messages, loading, isTyping, view, inflight, apiKey, now,
                   phase, effectRuns, accepted, issued, completed, uncaught>>

\* mutant: setLoading(true) is missing
MutSendIssuedNoLoading ==
    /\ ~GuardRejects(view)
    /\ apiKey
    /\ accepted < MaxSubmits
    /\ messages' = AppendMessage(messages, UserMessage(view))
    /\ input' = <<>>
    /\ loading' = loading
    /\ isTyping' = TRUE
    /\ inflight' = Append(inflight, RequestMessages(view))
    /\ view' = Snapshot(input', messages', loading', isTyping')
    /\ accepted' = accepted + 1
    /\ issued' = issued + 1
    /\ last' = "issued"
    /\ UNCHANGED <<apiKey, now, phase, effectRuns, completed, uncaught>>

\* the guard passed and the key is set: the four updates, then fetch is called
\* and the function suspends at the await; the updates are rendered
SendIssued ==
    /\ ~GuardRejects(view)
    /\ apiKey
    /\ accepted < MaxSubmits
    /\ messages' = AppendMessage(messages, UserMessage(view))
    /\ input' = <<>>
    /\ loading' = TRUE
    /\ isTyping' = TRUE
    /\ inflight' = Append(inflight, RequestMessages(view))
    /\ view' = Snapshot(input', messages', loading', isTyping')
    /\ accepted' = accepted + 1
    /\ issued' = issued + 1
    /\ last' = "issued"
    /\ UNCHANGED <<apiKey, now, phase, effectRuns, completed, uncaught>>

\* mutant: the key is not tested and the request goes out without it
MutSendNoKeyIssues ==
    /\ ~GuardRejects(view)
    /\ ~apiKey
    /\ accepted < MaxSubmits
    /\ messages' = AppendMessage(messages, UserMessage(view))
    /\ input' = <<>>
    /\ loading' = TRUE
    /\ isTyping' = TRUE
    /\ inflight' = Append(inflight, RequestMessages(view))
    /\ view' = Snapshot(input', messages', loading', isTyping')
    /\ accepted' = accepted + 1
    /\ issued' = issued + 1
    /\ last' = "issued"
    /\ UNCHANGED <<apiKey, now, phase, effectRuns, completed, uncaught>>

\* the guard passed and the key is not set: throw new Error('API key not found')
\* before any await, so catch and finally run in the same call
SendNoKey ==
    /\ ~GuardRejects(view)
    /\ ~apiKey
    /\ accepted < MaxSubmits
    /\ LET r == Thrown(KeyNotFound)
       IN  /\ messages' = AppendMessage(AppendMessage(messages, UserMessage(view)),
                                        Message("assistant", AssistantContent(r), now))
           /\ loading' = LoadingAfterFinally(r)
           /\ isTyping' = IsTypingAfterFinally(r)
    /\ input' = <<>>
    /\ view' = Snapshot(input', messages', loading', isTyping')
    /\ accepted' = accepted + 1
    /\ completed' = completed + 1
    /\ last' = "nokey"
    /\ UNCHANGED <<inflight, apiKey, now, phase, effectRuns, issued, uncaught>>

\* async function sendMessage(), run on the closure of the committed render
SendMessage == SendRejected \/ SendIssued \/ SendNoKey

\* ---- the rendered controls -------------------------------------------------
\* mutant: the textarea has no disabled attribute
MutTextareaNeverDisabled(c) == FALSE

\* <textarea disabled={loading}>
TextareaDisabled(c) == c.loading

\* <button disabled={!input.trim() || loading}>
ButtonDisabled(c) == Trim(c.input) = <<>> \/ c.loading

\* onChange={(e) => setInput(e.target.value)}: the user edits the textarea
OnChange(text) ==
    /\ phase = "ready"
    /\ ~TextareaDisabled(view)
    /\ input' = text
    /\ view' = Snapshot(input', messages, loading, isTyping)
    /\ last' = "change"
    /\ UNCHANGED <<messages, loading, isTyping, inflight, apiKey, now,
                   phase, effectRuns, accepted, issued, completed, uncaught>>

\* handleKeyPress with Enter and no Shift. React delivers keyboard events to the
\* handler whatever the control's disabled attribute says (it filters mouse
\* events only), so this is the path on which the guard's loading test is live.
HandleKeyPress ==
    /\ phase = "ready"
    /\ SendMessage

\* onClick={sendMessage}: a disabled button gets no click
ClickSend ==
    /\ phase = "ready"
    /\ ~ButtonDisabled(view)
    /\ SendMessage

\* ---- the remote call and what it settles with ------------------------------
\* text the service can put in choices[0].message.content
ReplyTexts == {<<>>, <<"a">>}

\* response.json(): the parsed body, as far as line 80 reads it
\*   data    "null" (the body is the JSON null) or "object"
\*   choices "missing", "empty" ([]) or "one"
\*   message "missing" or "present" (of choices[0])
\*   content "undefined", "null" or "string" (of choices[0].message)
Body(d, ch, msg, ct, tx) == [data |-> d, choices |-> ch, message |-> msg, content |-> ct, text |-> tx]

Bodies ==
    {Body("null", "missing", "missing", "undefined", <<>>),
     Body("object", "missing", "missing", "undefined", <<>>),
     Body("object", "empty", "missing", "undefined", <<>>),
     Body("object", "one", "missing", "undefined", <<>>),
     Body("object", "one", "present", "undefined", <<>>),
     Body("object", "one", "present", "null", <<>>)}
    \cup {Body("object", "one", "present", "string", tx) : tx \in ReplyTexts}

NoBody == Body("null", "missing", "missing", "undefined", <<>>)

Statuses == {200, 404, 500}

\* how one fetch call ends:
\*   net   "fail": fetch rejects (network error); "ok": a response arrived
\*   json  "fail": response.json() rejects (the body is not JSON)
Outcome(n, st, j, b) == [net |-> n, status |-> st, json |-> j, body |-> b]

Outcomes ==
    {Outcome("fail", 0, "fail", NoBody)}
    \cup {Outcome("ok", st, "fail", NoBody) : st \in Statuses}
    \cup {Outcome("ok", st, "ok", b) : st \in Statuses, b \in Bodies}

\* Response.ok: the status is in the range 200-299
ResponseOk(st) == st >= 200 /\ st <= 299

\* mutant: the ?? fallback is the catch block's text
MutExtractReplyErrorText(b) ==
    IF b.data = "null" \/ b.choices = "missing" THEN Thrown(NoChoices)
    ELSE IF b.choices = "empty" \/ b.message = "missing" THEN Completed(ErrorText)
    ELSE IF b.content \in {"undefined", "null"} THEN Completed(ErrorText)
    ELSE Completed(b.text)

\* data.choices[0]?.message?.content ?? 'Sorry, I could not process your request.'
ExtractReply(b) ==
    IF b.data = "null" \/ b.choices = "missing" THEN Thrown(NoChoices)
    ELSE IF b.choices = "empty" \/ b.message = "missing" THEN Completed(NoContentText)
    ELSE IF b.content \in {"undefined", "null"} THEN Completed(NoContentText)
    ELSE Completed(b.text)

\* the try block from the await of fetch on
TryAfterFetch(o) ==
    IF o.net = "fail" THEN Thrown(FailedToFetch)
    ELSE IF ~ResponseOk(o.status) THEN Thrown(ApiError(o.status))
    ELSE IF o.json = "fail" THEN Thrown(NotJson)
    ELSE ExtractReply(o.body)

RemoveAt(s, i) == [k \in 1..(Len(s) - 1) |-> IF k < i THEN s[k] ELSE s[k + 1]]

\* the i-th outstanding fetch settles with outcome o and the rest of
\* sendMessage runs: the try block, catch, finally. The updates are made
\* outside an event handler, so their render is a later task.
FetchSettle(i, o) ==
    /\ i \in 1..Len(inflight)
    /\ LET r == TryAfterFetch(o)
       IN  /\ messages' = IF r.thrown /\ ~Caught(r) THEN messages
                          ELSE AppendMessage(messages, Message("assistant", AssistantContent(r), now))
           /\ uncaught' = (uncaught \/ (r.thrown /\ ~Caught(r)))
           /\ last' = IF r.thrown THEN "settled_error"
                      ELSE IF r.value = NoContentText THEN "settled_nocontent"
                      ELSE "settled_reply"
           /\ loading' = LoadingAfterFinally(r)
           /\ isTyping' = IsTypingAfterFinally(r)
    /\ inflight' = RemoveAt(inflight, i)
    /\ completed' = completed + 1
    /\ UNCHANGED <<input, view, apiKey, now, phase, effectRuns, accepted, issued>>

\* React renders the pending updates; the handlers now close over them
Render ==
    /\ view # Snapshot(input, messages, loading, isTyping)
    /\ view' = Snapshot(input, messages, loading, isTyping)
    /\ UNCHANGED <<input, messages, loading, isTyping, inflight, apiKey, now,
                   phase, effectRuns, accepted, issued, completed, uncaught, last>>

Next ==
    \/ Tick
    \/ MountEffect
    \/ \E text \in Texts : OnChange(text)
    \/ HandleKeyPress
    \/ ClickSend
    \/ \E i \in 1..MaxSubmits, o \in Outcomes : FetchSettle(i, o)
    \/ Render

Spec == Init /\ [][Next]_vars

\* the remote call always settles (the transport ends every request with a
\* response or an error) and React always runs the render it scheduled
LiveSpec ==
    /\ Spec
    /\ WF_vars(\E i \in 1..MaxSubmits, o \in Outcomes : FetchSettle(i, o))
    /\ WF_vars(Render)

\* ---- properties ---------------------------------------------------------------
IsPrefix(a, b) == Len(a) <= Len(b) /\ SubSeq(b, 1, Len(a)) = a

AssistantCount(ms) == Cardinality({k \in DOMAIN ms : ms[k].role = "assistant"})

SubmitTrigger == HandleKeyPress \/ ClickSend

Settles == \E i \in 1..MaxSubmits, o \in Outcomes : FetchSettle(i, o)

\* C1: single-flight. At most one completion request is outstanding in every
\* reachable state, and a submit trigger that runs while loading is true (in the
\* state or in the closure it reads) changes neither the transcript nor the
\* outstanding requests, and issues none.
C1_SingleFlight ==
    /\ [](Len(inflight) <= 1)
    /\ [][(SubmitTrigger /\ (loading \/ view.loading))
            => UNCHANGED <<messages, inflight, issued, accepted, loading, input>>]_vars

C1_Witness == last = "reject_loading" /\ Len(inflight) = 1 /\ loading

\* C2: no stuck pending state. With the remote call always settling, loading =
\* TRUE always leads to loading = FALSE, whatever the call settles with.
C2_NoStuckPending == loading ~> ~loading

C2_Witness == ~loading /\ completed = 1 /\ last = "settled_error"

\* C3: every sendMessage invocation that passed the guard ends by appending
\* exactly one assistant message, as the last message, on every outcome, and no
\* exception leaves sendMessage.
C3_OneAssistantPerSubmit ==
    [][completed' # completed
         => /\ completed' = completed + 1
            /\ ~uncaught'
            /\ Len(messages') = Len(messages) + 1 + (accepted' - accepted)
            /\ messages'[Len(messages')].role = "assistant"
            /\ AssistantCount(messages') = AssistantCount(messages) + 1]_vars

C3_Witness ==
    /\ completed = 2
    /\ last = "settled_error"
    /\ Len(messages) = 5
    /\ messages[3].content = NoContentText
    /\ messages[5].content = ErrorText

\* C4: once mounted, the transcript holds the greeting and two messages for
\* every completed submit/resolve pair, and one more (the user message) while a
\* request is pending.
C4_LengthLaw ==
    phase = "ready" => Len(messages) = 2 * completed + 1 + (IF loading THEN 1 ELSE 0)

C4_Witness == phase = "ready" /\ ~loading /\ completed = 2 /\ Len(messages) = 5 /\ issued = 2

\* C5: a submit trigger on a draft that is empty after trimming changes
\* nothing: draft, transcript, pending flag and requests stay as they are.
C5_EmptyDraftRejected ==
    [][(SubmitTrigger /\ Trim(input) = <<>>)
         => UNCHANGED <<input, messages, loading, isTyping, inflight, issued, accepted>>]_vars

C5_Witness == last = "reject_empty" /\ input # <<>> /\ Trim(input) = <<>>

\* C6: once mounted, the transcript only grows at its end: the transcript
\* before a step is a prefix of the transcript after it.
C6_AppendOnly == [][phase = "ready" => IsPrefix(messages, messages')]_vars

C6_Witness == phase = "ready" /\ Len(messages) = 5 /\ last = "settled_reply" /\ now > messages[1].timestamp

\* C7: the request issued by an accepted submit carries the system instruction,
\* then the N messages of the transcript as {role, content} in order, then one
\* entry for the submitted text: N + 2 entries, nothing filtered.
C7_RequestPayload ==
    [][issued' = issued + 1
         => /\ Len(inflight') = Len(inflight) + 1
            /\ LET p == inflight'[Len(inflight')]
                   n == Len(messages)
               IN  /\ Len(p) = n + 2
                   /\ p[1] = [role |-> "system", content |-> SystemPrompt]
                   /\ \A k \in 1..n :
                          p[k + 1] = [role |-> messages[k].role, content |-> messages[k].content]
                   /\ p[n + 2] = [role |-> "user", content |-> input]]_vars

C7_Witness ==
    /\ Len(inflight) = 1
    /\ Len(inflight[1]) = 5
    /\ inflight[1][4].content \in {ErrorText, NoContentText}
    /\ inflight[1][5].content # Trim(inflight[1][5].content)

\* 2xx, a parsed body with a choices array, and no or empty content in it
ContentAbsentOrEmpty(o) ==
    /\ o.net = "ok" /\ ResponseOk(o.status) /\ o.json = "ok"
    /\ o.body.data = "object" /\ o.body.choices # "missing"
    /\ \/ o.body.choices = "empty"
       \/ o.body.message = "missing"
       \/ o.body.content \in {"undefined", "null"}
       \/ o.body.content = "string" /\ o.body.text = <<>>

\* C8: a 2xx response whose first choice has no or empty content appends the
\* fallback text, on the success path.
C8_NoContentFallback ==
    [][\A i \in 1..MaxSubmits, o \in Outcomes :
         (FetchSettle(i, o) /\ ContentAbsentOrEmpty(o))
           => /\ messages' = Append(messages, Message("assistant", NoContentText, now))
              /\ last' # "settled_error"]_vars

\* the remote call failed outright
HardFailure(o) == o.net = "fail" \/ ~ResponseOk(o.status)

\* C9: a missing key, a non-2xx status and a network error all append one
\* assistant message with the same fixed apology, which shows nothing of the
\* failure, and leave loading false.
C9_SameApology ==
    [][/\ \A i \in 1..MaxSubmits, o \in Outcomes :
            (FetchSettle(i, o) /\ HardFailure(o))
              => /\ messages' = Append(messages, Message("assistant", ErrorText, now))
                 /\ ~loading'
       /\ (~apiKey /\ accepted' = accepted + 1)
              => /\ Len(messages') = Len(messages) + 2
                 /\ messages'[Len(messages')] = Message("assistant", ErrorText, now)
                 /\ ~loading']_vars

C9_Witness ==
    /\ apiKey
    /\ last = "settled_error"
    /\ completed = 2
    /\ messages[3].content = ErrorText
    /\ messages[5].content = ErrorText

\* C10: without the key no request is ever issued; an accepted submit appends
\* the user message and the apology, leaves loading false and the controls
\* enabled, so that a later submit is accepted.
C10_NoKey ==
    /\ [](~apiKey => issued = 0 /\ inflight = <<>> /\ ~loading)
    /\ [][(~apiKey /\ accepted' = accepted + 1)
            => /\ messages' = messages \o <<Message("user", input, now),
                                            Message("assistant", ErrorText, now)>>
               /\ ~loading'
               /\ ~TextareaDisabled(view')
               /\ UNCHANGED <<inflight, issued>>]_vars

C10_Witness ==
    /\ ~apiKey
    /\ last = "nokey"
    /\ accepted = 2
    /\ Len(messages) = 5
    /\ messages[5].content = ErrorText

\* C11: ordering. A submit is accepted only when every earlier submit has been
\* resolved and nothing is outstanding; a resolve follows its own submit, ends
\* the one outstanding request, whose last entry is the last user message, and
\* puts the assistant message right after that user message.
C11_Ordering ==
    [][/\ accepted' # accepted
            => /\ accepted' = accepted + 1
               /\ completed = accepted
               /\ inflight = <<>>
               /\ messages[Len(messages)].role = "assistant"
       /\ completed' # completed
            => /\ completed' = accepted'
               /\ Len(messages') = 2 * completed' + 1
               /\ messages'[Len(messages') - 1].role = "user"
               /\ messages'[Len(messages')].role = "assistant"
       /\ (completed' # completed /\ accepted' = accepted)
            => /\ inflight = <<RequestMessages(
                                  [input |-> messages[Len(messages)].content,
                                   messages |-> SubSeq(messages, 1, Len(messages) - 1)])>>
               /\ inflight' = <<>>
               /\ SubSeq(messages', 1, Len(messages)) = messages]_vars

C11_Witness ==
    /\ accepted = 2 /\ issued = 2 /\ completed = 2
    /\ last = "settled_reply"
    /\ messages[3].content = <<"a">>
    /\ messages[5].content = <<>>

\* a 2xx response with a string in choices[0].message.content
SuccessWith(o, c) ==
    /\ o.net = "ok" /\ ResponseOk(o.status) /\ o.json = "ok"
    /\ o.body = Body("object", "one", "present", "string", c)

\* C12 as stated: the first request of a session is [system, {user, t}], two
\* entries, the greeting not among them.
C12_FirstRequestTwoEntries ==
    [][(issued = 0 /\ issued' = 1)
         => inflight' = <<<<[role |-> "system", content |-> SystemPrompt],
                            [role |-> "user", content |-> input]>>>>]_vars

\* C12 amended: the first request of a session is [system, {assistant,
\* greeting}, {user, t}], three entries; after a success with content c the
\* transcript is [greeting, user t, assistant c] and loading is false.
C12_ScenarioA ==
    [][/\ (issued = 0 /\ issued' = 1)
            => /\ inflight' = <<<<[role |-> "system", content |-> SystemPrompt],
                                  [role |-> "assistant", content |-> GreetingText],
                                  [role |-> "user", content |-> input]>>>>
               /\ messages' = <<messages[1], Message("user", input, now)>>
               /\ messages[1].content = GreetingText
               /\ loading'
       /\ \A o \in Outcomes, c \in ReplyTexts \ {<<>>} :
            (completed = 0 /\ FetchSettle(1, o) /\ SuccessWith(o, c))
              => /\ Len(messages) = 2
                 /\ messages' = <<messages[1],
                                  Message("user", inflight[1][3].content, messages[2].timestamp),
                                  Message("assistant", c, now)>>
                 /\ ~loading']_vars

C12_Witness ==
    /\ completed = 1 /\ issued = 1
    /\ last = "settled_reply"
    /\ ~loading
    /\ Len(messages) = 3
    /\ messages[2].content = <<" ", "a", " ">>
    /\ messages[3].content = <<"a">>

\* 2xx, a parsed body with a choices array, and no content in it (undefined
\* or null at some step of choices[0]?.message?.content)
ContentAbsent(o) ==
    /\ ContentAbsentOrEmpty(o)
    /\ ~(o.body.choices = "one" /\ o.body.message = "present" /\ o.body.content = "string")

\* C13 as stated: one fallback text. A step that settles with an outright
\* failure appends the very message that a 2xx response without content
\* would have appended.
C13_OneFallbackText ==
    [][\A i \in 1..MaxSubmits, o1 \in Outcomes, o2 \in Outcomes :
         (FetchSettle(i, o1) /\ HardFailure(o1) /\ ContentAbsent(o2))
           => messages' = Append(messages,
                 Message("assistant", AssistantContent(TryAfterFetch(o2)), now))]_vars

\* C13 amended: two fixed texts that differ. Every outright failure (and every
\* exception of the try block) appends the catch block's text, every 2xx
\* response without content appends the text of line 80.
C13_TwoFallbackTexts ==
    [][/\ ErrorText # NoContentText
       /\ \A i \in 1..MaxSubmits, o \in Outcomes :
            /\ (FetchSettle(i, o) /\ (HardFailure(o) \/ TryAfterFetch(o).thrown))
                 => messages'[Len(messages')].content = ErrorText
            /\ (FetchSettle(i, o) /\ ContentAbsent(o))
                 => messages'[Len(messages')].content = NoContentText]_vars

C13_Witness ==
    /\ completed = 2
    /\ last = "settled_nocontent"
    /\ messages[3].content = ErrorText
    /\ messages[5].content = NoContentText

\* ---- triggers that share one closure ---------------------------------------
\* setLoading(true) and setInput('') do not change the loading and input that
\* sendMessage closes over; only the next render does. Here a trigger leaves
\* that render to React (Render), so that a second trigger (Enter and a click,
\* or two events dispatched in one task) can run on the closure of the first.

\* SendIssued, with the render left to React
SendIssuedQueued ==
    /\ ~GuardRejects(view)
    /\ apiKey
    /\ accepted < MaxSubmits
    /\ messages' = AppendMessage(messages, UserMessage(view))
    /\ input' = <<>>
    /\ loading' = TRUE
    /\ isTyping' = TRUE
    /\ inflight' = Append(inflight, RequestMessages(view))
    /\ accepted' = accepted + 1
    /\ issued' = issued + 1
    /\ last' = "issued"
    /\ UNCHANGED <<view, apiKey, now, phase, effectRuns, completed, uncaught>>

\* SendNoKey, with the render left to React
SendNoKeyQueued ==
    /\ ~GuardRejects(view)
    /\ ~apiKey
    /\ accepted < MaxSubmits
    /\ LET r == Thrown(KeyNotFound)
       IN  /\ messages' = AppendMessage(AppendMessage(messages, UserMessage(view)),
                                        Message("assistant", AssistantContent(r), now))
           /\ loading' = LoadingAfterFinally(r)
           /\ isTyping' = IsTypingAfterFinally(r)
    /\ input' = <<>>
    /\ accepted' = accepted + 1
    /\ completed' = completed + 1
    /\ last' = "nokey"
    /\ UNCHANGED <<view, inflight, apiKey, now, phase, effectRuns, issued, uncaught>>

SendMessageQueued == SendRejected \/ SendIssuedQueued \/ SendNoKeyQueued

HandleKeyPressQueued ==
    /\ phase = "ready"
    /\ SendMessageQueued

ClickSendQueued ==
    /\ phase = "ready"
    /\ ~ButtonDisabled(view)
    /\ SendMessageQueued

BatchedNext ==
    \/ Tick
    \/ MountEffect
    \/ \E text \in Texts : OnChange(text)
    \/ HandleKeyPressQueued
    \/ ClickSendQueued
    \/ \E i \in 1..MaxSubmits, o \in Outcomes : FetchSettle(i, o)
    \/ Render

BatchedSpec == Init /\ [][BatchedNext]_vars

\* C14: the guard's test and the setting of loading are atomic for submit
\* triggers, also for triggers that read the same captured loading and input:
\* a trigger passes the guard only if no accepted submit is pending and the
\* draft has not been taken by an earlier trigger, so there are never two
\* outstanding requests nor two user messages for one draft.
C14_GuardAtomic ==
    /\ [](Len(inflight) <= 1)
    /\ [][accepted' # accepted => (~loading /\ Trim(input) # <<>>)]_vars

\* the user edits the draft
EditDraft == \E text \in Texts : OnChange(text)

\* C15 as stated: while a request is outstanding the user can still change the
\* draft to a non-empty value.
C15_EditEnabledWhilePending ==
    (phase = "ready" /\ loading) => ENABLED (\E text \in Texts \ {<<>>} : OnChange(text))

\* C15 amended: while loading is true the textarea is disabled, no edit is
\* possible and the draft stays empty; an edit happens only with loading false
\* in the state and in the rendered closure, and changes only the draft.
C15_EditDisabledWhilePending ==
    /\ [](loading => (~ENABLED EditDraft /\ input = <<>> /\ TextareaDisabled(view)))
    /\ [][EditDraft => (~loading /\ ~view.loading
                         /\ UNCHANGED <<messages, loading, isTyping, inflight, issued, accepted>>)]_vars

C15_Witness ==
    /\ loading /\ Len(inflight) = 1
    /\ TextareaDisabled(view)
    /\ completed = 1
    /\ messages[2].content = <<" ", "a", " ">>
    /\ input = <<>>

\* C16: the draft is cleared exactly when a submit is accepted. The accepting
\* step empties the draft, appends the user message with the draft's text as
\* it was (untrimmed) and sets loading (with the key set); the draft changes
\* in no other step but an edit: not when a submit is rejected, not when the
\* remote call settles and the reply is appended, not in a render.
C16_DraftCleared ==
    [][/\ accepted' # accepted
            => /\ input # <<>>
               /\ input' = <<>>
               /\ Len(messages') > Len(messages)
               /\ messages'[Len(messages) + 1] = Message("user", input, now)
               /\ apiKey => loading'
       /\ input' # input => (EditDraft \/ accepted' # accepted)
       /\ (SendRejected \/ Settles \/ Render \/ Tick) => input' = input]_vars

C16_Witness ==
    /\ last = "issued"
    /\ loading
    /\ input = <<>>
    /\ completed = 1
    /\ messages[4] = Message("user", <<" ", "a", " ">>, now)

\* C17: once the mount effect has run, the first message is the synthesized
\* assistant greeting and the greeting occurs exactly once in the transcript,
\* however often the effect ran; until mounting is over no request has been
\* issued and no submit accepted.
C17_GreetingOnce ==
    /\ effectRuns >= 1
         => /\ Len(messages) >= 1
            /\ messages[1].role = "assistant"
            /\ messages[1].content = GreetingText
            /\ Cardinality({k \in DOMAIN messages : messages[k].content = GreetingText}) = 1
    /\ phase = "mounting" => (issued = 0 /\ accepted = 0 /\ inflight = <<>>)
    /\ effectRuns = 0 => messages = <<>>

C17_Witness ==
    /\ effectRuns = 2
    /\ phase = "ready"
    /\ Len(messages) = 5
    /\ messages[1].timestamp = 1
    /\ issued = 2

\* C18: once mounted, the roles of the transcript alternate, starting with
\* assistant; loading is true exactly when the last message is a user message;
\* isTyping equals loading.
C18_Alternation ==
    phase = "ready"
      => /\ \A k \in DOMAIN messages :
              messages[k].role = IF k % 2 = 1 THEN "assistant" ELSE "user"
         /\ loading <=> messages[Len(messages)].role = "user"
         /\ isTyping = loading

C18_Witness ==
    /\ phase = "ready"
    /\ loading /\ isTyping
    /\ last = "issued"
    /\ Len(messages) = 4
    /\ messages[3].content = <<>>

====
